---- MODULE Spec2Model ----
(***************************************************************************)
(* The file-based automation and debug control plane of the Mednafen       *)
(* Saturn fork (drivers/automation.cpp, latest revision in the tree):      *)
(* the action-file watcher, the command dispatcher, the frame tick         *)
(* (Automation_Poll), the per-instruction hook (Automation_DebugHook) and  *)
(* shutdown (Automation_Kill), together with the orchestrator that writes  *)
(* the action file and the wall clock that stamps it.                      *)
(***************************************************************************)
EXTENDS Integers, Sequences, FiniteSets, TLC

\* ---------------------------------------------------------------- bounds
\* frame ticks explored
MaxFrame == 4
\* instruction-level pauses explored (each one increments ack_seq)
MaxSeq == 2
\* seconds of wall-clock time explored
MaxClock == 2
\* entries the breakpoint vector may hold
MaxBps == 1
\* calls of Automation_Kill explored
MaxKills == 2
\* action files the client of the vocabulary scenarios writes
MaxFiles == 3
\* watchpoint hits logged in one run
MaxHits == 2
\* entries of the breakpoint list where the list itself is examined
MaxList == 3

\* ---------------------------------------------------------------- inputs
\* counts sent with frame_advance
AdvanceCounts == {1, 3}
\* counts sent with step
StepCounts == {1, 2}
\* targets sent with run_to_frame
Targets == {3}
\* decode PCs the CPU passes to the hook
Addrs == {16, 32}
\* breakpoint addresses sent
BpAddrs == {16}
\* pipeline distance between the decode PC and the fetch PC
FetchAhead == {2, 4}
\* trace paths: one that fopen can create and one it cannot
GoodPath == "/tmp/pc.bin"
BadPath == "/nonexistent/pc.bin"
OtherPath == "/tmp/b.png"
\* button names sent with input: one parse_button knows and one it does not
GoodButton == "START"
LowButton == "UP"
BadButton == "TURBO"
\* a first token outside the command vocabulary
UnknownToken == "zorkmid"
\* a run_to_frame target below every frame number
NegativeTarget == -1

\* ------------------------------------------------------------- variables
VARIABLES
  automation_active,     \* static bool automation_active
  inited,                \* Automation_Init has run
  frame_counter,
  frames_to_advance,     \* -1 free-running, 0 paused, >0 counting down
  run_to_frame_target,   \* -1 none
  pc_trace_file,         \* TRUE iff the FILE* is non-null
  pc_trace_active,
  pc_trace_frame_mode,
  instructions_to_step,  \* -1 not stepping, >0 counting
  instruction_paused,
  breakpoints,           \* std::vector<uint32_t>
  cpu_hook_active,
  ack_seq,
  last_action_mtime,
  last_action_size,
  ack_file,              \* content of mednafen_ack.txt (one message)
  exit_requested,        \* MainRequestExit() was called
  action_file,           \* mednafen_action.txt as of the last poll: stat and header
  clock,                 \* wall clock at the last poll, seconds
  pc,                    \* where the emulator thread is
  kill_calls,            \* calls of Automation_Kill so far
  shutdown_acks,         \* history: shutdown acks written so far
  last_dispatch,         \* history: command lines dispatched by the last step
  gh,                    \* history: the last frame_advance/step accepted
  seen_unblock,          \* history: run/frame_advance/run_to_frame/step/continue seen
  seen_trace,            \* history: pc_trace_frame armed at least once
  accepted_header,       \* history: header of the action file read last
  repeat_header,         \* history: the last step dispatched under a repeated header
  pause_arg,             \* history: decode PC of the hook invocation that paused last
  input_buttons,         \* uint16_t bitmask, as the set of its set bits
  input_override,
  pending_screenshot_path,
  pending_show_window,
  pending_hide_window,
  dispatch_acks,         \* history: acks written by each line of last_dispatch
  async_ack,             \* history: the ack the last step wrote outside the dispatcher
  touched,               \* history: control statics the last dispatched line changed
  last_ctl,              \* history: the last frame- or instruction-control command
  trace_age,             \* history: 0 from pc_trace_frame arming to the next frame
                         \* tick, 1 in the state that tick leaves, else -1
  handle_dropped,        \* history: the last step overwrote an open trace handle
  watchpoint,            \* watched address, -1 when no watchpoint is armed
  wp_log,                \* lines of watchpoint_hits.txt
  mem_write,             \* history: the memory write the last step made
  pad,                   \* history: the input request the last step served
  shots_owed,            \* history: paths acked ok screenshot_queued and not
                         \* yet answered by a frame tick
  last_dump,             \* history: the bytes the last step read for dump_mem
                         \* or wrote for dump_mem_bin
  window_call            \* history: the consume call the last step made and
                         \* the value it returned

vars == <<automation_active, inited, frame_counter, frames_to_advance,
          run_to_frame_target, pc_trace_file, pc_trace_active,
          pc_trace_frame_mode, instructions_to_step, instruction_paused,
          breakpoints, cpu_hook_active, ack_seq, last_action_mtime,
          last_action_size, ack_file, exit_requested, action_file, clock, pc,
          kill_calls, shutdown_acks, last_dispatch, gh, seen_unblock,
          seen_trace, accepted_header, repeat_header, pause_arg,
          input_buttons, input_override, pending_screenshot_path,
          pending_show_window, pending_hide_window, dispatch_acks, async_ack,
          touched, last_ctl, trace_age, handle_dropped, watchpoint, wp_log,
          mem_write, pad, shots_owed, last_dump, window_call>>

\* ------------------------------------------------------------ data shapes
\* One ack message; seq is part of the text only where the code formats it.
Ack(m, x, y) ==
  [msg |-> m, a |-> x, b |-> y, c |-> 0, txt |-> "", has_seq |-> FALSE, seq |-> 0]
AckSeq(m, x, y, q) ==
  [msg |-> m, a |-> x, b |-> y, c |-> 0, txt |-> "", has_seq |-> TRUE, seq |-> q]
\* break pc=<x> addr=<z> frame=<y> seq=<q>
AckBreak(x, z, y, q) == [AckSeq("break", x, y, q) EXCEPT !.c = z]
\* an ack that ends in a token or a path
AckT(m, w) == [Ack(m, 0, 0) EXCEPT !.txt = w]
NoAck == Ack("none", 0, 0)

\* One command line: whether it begins with white space, the first token
\* ("" when there is none), whether an argument token follows, and the
\* argument (a number, or a path for pc_trace_frame).
Cmd(o) ==
  [op |-> o, ws |-> FALSE, has_arg |-> FALSE, junk |-> FALSE, num |-> 0,
   has_num2 |-> FALSE, num2 |-> 0, wide |-> FALSE, path |-> ""]
\* a line that begins with white space: only blanks (o = ""), or an
\* indented token
CmdS(o) == [Cmd(o) EXCEPT !.ws = TRUE]
CmdN(o, n) == [Cmd(o) EXCEPT !.has_arg = TRUE, !.num = n]
CmdP(o, p) == [Cmd(o) EXCEPT !.has_arg = TRUE, !.path = p]
\* a command whose argument token is not a number
CmdJ(o) == [Cmd(o) EXCEPT !.has_arg = TRUE, !.junk = TRUE]
\* a command with two numbers and, for dump_mem_bin, a path
CmdM(o, a, n, p) ==
  [Cmd(o) EXCEPT !.has_arg = TRUE, !.num = a, !.has_num2 = TRUE, !.num2 = n,
                 !.path = p]

\* a command whose second number has more hex digits than fit 32 bits
CmdW(o, a, p) == [CmdM(o, a, 0, p) EXCEPT !.wide = TRUE]

\* The header line "# <seq><padding>": the sequence number and the number of
\* padding characters after it.
Header(q, p) == [seq |-> q, pad |-> p]
NoHeader == Header(0, 0)
HeaderLine == Cmd("#")

\* The action file as a poll finds it: what stat() reports and its header line.
NoFile == [exists |-> FALSE, mtime |-> 0, size |-> 0, header |-> NoHeader]

NoTrack == [op |-> "none", n |-> 0, frame |-> 0, ticks |-> 0, hooks |-> 0,
            fresh |-> FALSE, first |-> FALSE, from_insn |-> FALSE, raw |-> 0]
NoCtl == [op |-> "none", ticks |-> 0, cut |-> FALSE]
NoWrite == [source |-> "none", addr |-> 0]
NoDump == [op |-> "none", addr |-> 0, bytes |-> 0]
NoCall == [fn |-> "none", ret |-> FALSE]
NoReturn == [returned |-> FALSE, value |-> FALSE]
\* both return statements of Automation_DebugHook return false
HookReturn == [returned |-> TRUE, value |-> FALSE]
\* no watchpoint armed
WatchOff == -1
\* one call of Automation_GetInput: its arguments, the buffer it leaves and
\* the value it returns; a byte is the set of its set bits
NoRequest == [port |-> -1, size |-> 0, before |-> <<{}, {}>>,
              after |-> <<{}, {}>>, ret |-> FALSE]

\* The statics of automation.cpp (and the history read off them) as one record,
\* so that the lines of one action file can be dispatched one after another.
Statics == [
  automation_active |-> automation_active,
  frame_counter |-> frame_counter,
  frames_to_advance |-> frames_to_advance,
  run_to_frame_target |-> run_to_frame_target,
  pc_trace_file |-> pc_trace_file,
  pc_trace_active |-> pc_trace_active,
  pc_trace_frame_mode |-> pc_trace_frame_mode,
  instructions_to_step |-> instructions_to_step,
  instruction_paused |-> instruction_paused,
  breakpoints |-> breakpoints,
  cpu_hook_active |-> cpu_hook_active,
  ack_seq |-> ack_seq,
  last_action_mtime |-> last_action_mtime,
  last_action_size |-> last_action_size,
  ack_file |-> ack_file,
  exit_requested |-> exit_requested,
  shutdown_acks |-> shutdown_acks,
  last_dispatch |-> <<>>,
  gh |-> gh,
  seen_unblock |-> seen_unblock,
  seen_trace |-> seen_trace,
  accepted_header |-> accepted_header,
  repeat_header |-> FALSE,
  pause_arg |-> pause_arg,
  input_buttons |-> input_buttons,
  input_override |-> input_override,
  pending_screenshot_path |-> pending_screenshot_path,
  pending_show_window |-> pending_show_window,
  pending_hide_window |-> pending_hide_window,
  dispatch_acks |-> <<>>,
  async_ack |-> "none",
  touched |-> {},
  last_ctl |-> last_ctl,
  trace_age |-> IF trace_age = 1 THEN -1 ELSE trace_age,
  handle_dropped |-> FALSE,
  watchpoint |-> watchpoint,
  wp_log |-> wp_log,
  mem_write |-> NoWrite,
  pad |-> NoRequest,
  shots_owed |-> shots_owed,
  last_dump |-> NoDump,
  window_call |-> NoCall,
  hook_return |-> NoReturn,
  in_dispatch |-> FALSE,
  acks |-> 0]

SetStatics(s) ==
  /\ automation_active' = s.automation_active
  /\ frame_counter' = s.frame_counter
  /\ frames_to_advance' = s.frames_to_advance
  /\ run_to_frame_target' = s.run_to_frame_target
  /\ pc_trace_file' = s.pc_trace_file
  /\ pc_trace_active' = s.pc_trace_active
  /\ pc_trace_frame_mode' = s.pc_trace_frame_mode
  /\ instructions_to_step' = s.instructions_to_step
  /\ instruction_paused' = s.instruction_paused
  /\ breakpoints' = s.breakpoints
  /\ cpu_hook_active' = s.cpu_hook_active
  /\ ack_seq' = s.ack_seq
  /\ last_action_mtime' = s.last_action_mtime
  /\ last_action_size' = s.last_action_size
  /\ ack_file' = s.ack_file
  /\ exit_requested' = s.exit_requested
  /\ shutdown_acks' = s.shutdown_acks
  /\ last_dispatch' = s.last_dispatch
  /\ gh' = s.gh
  /\ seen_unblock' = s.seen_unblock
  /\ seen_trace' = s.seen_trace
  /\ accepted_header' = s.accepted_header
  /\ repeat_header' = s.repeat_header
  /\ pause_arg' = s.pause_arg
  /\ input_buttons' = s.input_buttons
  /\ input_override' = s.input_override
  /\ pending_screenshot_path' = s.pending_screenshot_path
  /\ pending_show_window' = s.pending_show_window
  /\ pending_hide_window' = s.pending_hide_window
  /\ dispatch_acks' = s.dispatch_acks
  /\ async_ack' = s.async_ack
  /\ touched' = s.touched
  /\ last_ctl' = s.last_ctl
  /\ trace_age' = s.trace_age
  /\ handle_dropped' = s.handle_dropped
  /\ watchpoint' = s.watchpoint
  /\ wp_log' = s.wp_log
  /\ mem_write' = s.mem_write
  /\ pad' = s.pad
  /\ shots_owed' = s.shots_owed
  /\ last_dump' = s.last_dump
  /\ window_call' = s.window_call

\* ------------------------------------------------------------ ack writer
write_ack(s, m) ==
  [s EXCEPT !.ack_file = m,
            !.shutdown_acks = IF m.msg = "shutdown" THEN @ + 1 ELSE @,
            !.acks = @ + 1,
            !.async_ack = IF s.in_dispatch THEN @ ELSE m.msg]

\* ------------------------------------------------- hook activation manager
\* a faulty manager that forgets the breakpoint list
update_cpu_hook_ignoring_breakpoints(s) ==
  LET need == s.pc_trace_active \/ s.instructions_to_step >= 0
  IN  IF need /\ ~s.cpu_hook_active THEN [s EXCEPT !.cpu_hook_active = TRUE]
      ELSE IF ~need /\ s.cpu_hook_active THEN [s EXCEPT !.cpu_hook_active = FALSE]
      ELSE s

update_cpu_hook(s) ==
  LET need == s.pc_trace_active \/ s.instructions_to_step >= 0
              \/ s.breakpoints # <<>>
  IN  IF need /\ ~s.cpu_hook_active THEN [s EXCEPT !.cpu_hook_active = TRUE]
      ELSE IF ~need /\ s.cpu_hook_active THEN [s EXCEPT !.cpu_hook_active = FALSE]
      ELSE s

\* iss >> n for a decimal int64: the token's value, 0 when there is none
ParseCount(c) == IF c.has_arg /\ ~c.junk THEN c.num ELSE 0

\* fopen(path, "wb")
CanOpen(p) == p = GoodPath

\* ---------------------------------------------------------------- history
\* c (count n, parsed as raw) becomes the last frame_advance/step accepted;
\* old is the state it was dispatched in.
Track(s, old, c, n) ==
  [s EXCEPT !.gh = [op |-> c.op, n |-> n, frame |-> old.frame_counter,
                    ticks |-> 0, hooks |-> 0, fresh |-> TRUE,
                    first |-> (old.ack_file.msg = "ready"),
                    from_insn |-> old.instruction_paused,
                    raw |-> ParseCount(c)],
            !.seen_unblock = TRUE,
            !.pause_arg = 0]
\* another command followed the tracked one
Untrack(s) == [s EXCEPT !.gh = NoTrack, !.pause_arg = 0]

\* ------------------------------------------------------ command dispatcher
cmd_frame_advance(s, c) ==
  LET n == IF ParseCount(c) < 1 THEN 1 ELSE ParseCount(c)
      s1 == [s EXCEPT !.frames_to_advance = n,
                      !.instruction_paused = FALSE,
                      !.instructions_to_step = -1]
  IN  Track(write_ack(update_cpu_hook(s1), Ack("ok frame_advance", n, 0)), s, c, n)

cmd_run_to_frame(s, c) ==
  LET n == ParseCount(c)
      s1 == [s EXCEPT !.run_to_frame_target = n,
                      !.frames_to_advance = -1,
                      !.instruction_paused = FALSE,
                      !.instructions_to_step = -1]
  IN  Track(write_ack(update_cpu_hook(s1), Ack("ok run_to_frame", n, 0)), s, c, n)

cmd_run(s) ==
  LET s1 == [s EXCEPT !.frames_to_advance = -1,
                      !.run_to_frame_target = -1,
                      !.instruction_paused = FALSE,
                      !.instructions_to_step = -1,
                      !.seen_unblock = TRUE]
  IN  Untrack(write_ack(update_cpu_hook(s1), Ack("ok run", 0, 0)))

\* a faulty pause that only answers
cmd_pause_ack_only(s) ==
  Untrack(write_ack(s, Ack("ok pause", s.frame_counter, 0)))

\* a faulty pause that raises the instruction-level pause flag as well
cmd_pause_both_levels(s) ==
  Untrack(write_ack([s EXCEPT !.frames_to_advance = 0, !.instruction_paused = TRUE],
                    Ack("ok pause", s.frame_counter, 0)))

cmd_pause(s) ==
  Untrack(write_ack([s EXCEPT !.frames_to_advance = 0],
                    Ack("ok pause", s.frame_counter, 0)))

\* MainRequestExit() only raises the main loop's exit flag.
cmd_quit(s) ==
  Untrack([write_ack(s, Ack("ok quit", 0, 0)) EXCEPT !.exit_requested = TRUE])

\* a faulty status that answers nothing
cmd_status_silent(s) == Untrack(s)

cmd_status(s) ==
  Untrack(write_ack(s, Ack("status", s.frame_counter, 0)))

cmd_pc_trace_frame(s, c) ==
  IF c.path = "" THEN Untrack(write_ack(s, Ack("error pc_trace_frame: no path", 0, 0)))
  ELSE IF ~CanOpen(c.path)
  THEN Untrack(write_ack([s EXCEPT !.pc_trace_file = FALSE,
                                   !.handle_dropped = @ \/ s.pc_trace_file],
                         Ack("error pc_trace_frame: cannot open", 0, 0)))
  ELSE LET s1 == [s EXCEPT !.pc_trace_file = TRUE,
                           !.pc_trace_active = TRUE,
                           !.pc_trace_frame_mode = TRUE,
                           !.frames_to_advance = 1,
                           !.seen_trace = TRUE,
                           !.trace_age = 0,
                           !.handle_dropped = @ \/ s.pc_trace_file]
       IN  Untrack(write_ack(update_cpu_hook(s1), Ack("ok pc_trace_frame_started", 0, 0)))

\* a faulty step that takes the count as parsed
cmd_step_uncoerced(s, c) ==
  LET n == ParseCount(c)
      s1 == [s EXCEPT !.instructions_to_step = n,
                      !.instruction_paused = FALSE,
                      !.frames_to_advance = IF @ = 0 THEN -1 ELSE @]
  IN  Track(write_ack(update_cpu_hook(s1), Ack("ok step", n, 0)), s, c, n)

cmd_step(s, c) ==
  LET n == IF ParseCount(c) < 1 THEN 1 ELSE ParseCount(c)
      s1 == [s EXCEPT !.instructions_to_step = n,
                      !.instruction_paused = FALSE,
                      !.frames_to_advance = IF @ = 0 THEN -1 ELSE @]
  IN  Track(write_ack(update_cpu_hook(s1), Ack("ok step", n, 0)), s, c, n)

\* a faulty breakpoint that keeps the list free of duplicates
cmd_breakpoint_unique(s, c) ==
  LET addr == ParseCount(c)
      s1 == [s EXCEPT !.breakpoints =
                        IF \E i \in 1..Len(@) : @[i] = addr THEN @ ELSE Append(@, addr)]
  IN  Untrack(write_ack(update_cpu_hook(s1),
                        Ack("ok breakpoint", addr, Len(s1.breakpoints))))

cmd_breakpoint(s, c) ==
  LET addr == ParseCount(c)
      s1 == [s EXCEPT !.breakpoints = Append(@, addr)]
  IN  Untrack(write_ack(update_cpu_hook(s1),
                        Ack("ok breakpoint", addr, Len(s1.breakpoints))))

cmd_breakpoint_clear(s) ==
  LET count == Len(s.breakpoints)
      s1 == [s EXCEPT !.breakpoints = <<>>]
  IN  Untrack(write_ack(update_cpu_hook(s1), Ack("ok breakpoint_clear", count, 0)))

cmd_breakpoint_list(s) ==
  Untrack(write_ack(s, Ack("breakpoints", Len(s.breakpoints), 0)))

\* a faulty continue that leaves the frame mode alone
cmd_continue_insn_only(s) ==
  LET s1 == [s EXCEPT !.instruction_paused = FALSE,
                      !.instructions_to_step = -1,
                      !.seen_unblock = TRUE]
  IN  Untrack(write_ack(update_cpu_hook(s1), Ack("ok continue", 0, 0)))

cmd_continue(s) ==
  LET s1 == [s EXCEPT !.instruction_paused = FALSE,
                      !.instructions_to_step = -1,
                      !.frames_to_advance = IF @ = 0 THEN -1 ELSE @,
                      !.seen_unblock = TRUE]
  IN  Untrack(write_ack(update_cpu_hook(s1), Ack("ok continue", 0, 0)))

\* a faulty else branch that also pauses the frame loop
cmd_unknown_pausing(s, c) ==
  Untrack(write_ack([s EXCEPT !.frames_to_advance = 0],
                    AckT("error unknown command", c.op)))

cmd_unknown(s, c) ==
  Untrack(write_ack(s, AckT("error unknown command", c.op)))

cmd_screenshot(s, c) ==
  IF c.path = "" THEN Untrack(write_ack(s, Ack("error screenshot: no path specified", 0, 0)))
  ELSE Untrack(write_ack([s EXCEPT !.pending_screenshot_path = c.path,
                                   !.shots_owed = @ \cup {c.path}],
                         AckT("ok screenshot_queued", c.path)))

parse_button(w) ==
  CASE w = "START" -> 11 [] w = "A" -> 10 [] w = "B" -> 8 [] w = "C" -> 9
    [] w = "X" -> 2 [] w = "Y" -> 1 [] w = "Z" -> 0 [] w = "L" -> 15
    [] w = "R" -> 3 [] w = "UP" -> 4 [] w = "DOWN" -> 5 [] w = "LEFT" -> 6
    [] w = "RIGHT" -> 7 [] OTHER -> -1

cmd_input(s, c) ==
  LET b == parse_button(c.path)
  IN  IF b >= 0
      THEN Untrack(write_ack([s EXCEPT !.input_buttons = @ \cup {b},
                                       !.input_override = TRUE],
                             AckT("ok input", c.path)))
      ELSE Untrack(write_ack(s, AckT("error input: unknown button", c.path)))

\* a faulty release that leaves the override flag alone
cmd_input_release_keeping_override(s, c) ==
  LET b == parse_button(c.path)
  IN  IF b >= 0
      THEN Untrack(write_ack([s EXCEPT !.input_buttons = @ \ {b}],
                             AckT("ok input_release", c.path)))
      ELSE Untrack(write_ack(s, AckT("error input_release: unknown button", c.path)))

cmd_input_release(s, c) ==
  LET b == parse_button(c.path)
  IN  IF b >= 0
      THEN Untrack(write_ack([s EXCEPT !.input_buttons = @ \ {b},
                                       !.input_override =
                                          IF s.input_buttons \ {b} = {} THEN FALSE ELSE @],
                             AckT("ok input_release", c.path)))
      ELSE Untrack(write_ack(s, AckT("error input_release: unknown button", c.path)))

cmd_input_clear(s) ==
  Untrack(write_ack([s EXCEPT !.input_buttons = {}, !.input_override = FALSE],
                    Ack("ok input_clear", 0, 0)))

\* the register text comes from the CPU core
cmd_dump_regs(s) == Untrack(write_ack(s, Ack("regs", 0, 0)))

\* iss >> std::hex >> addr >> size >> path: a token is read only while the
\* stream is good; a number too wide for uint32_t is stored as 0xFFFFFFFF
\* and fails the stream
SecondRead(c) == c.has_arg /\ ~c.junk /\ c.has_num2
SecondNum(c, dflt) == IF SecondRead(c) THEN c.num2 ELSE dflt
ThirdPath(c) == IF SecondRead(c) /\ ~c.wide THEN c.path ELSE ""
DumpMemDefault == 256
DumpMemLimit == 65536
DumpBinLimit == 1048576
\* a faulty clamp that lets every size through
Clamp_unclamped(n, lim) == n
Clamp(n, lim) == IF n > lim THEN lim ELSE n
\* the size after the clamp; 0xFFFFFFFF is above either limit
Clamped(c, dflt, lim) ==
  IF SecondRead(c) /\ c.wide THEN lim ELSE Clamp(SecondNum(c, dflt), lim)

\* dump_memory reads size bytes from addr on and formats them into the ack
cmd_dump_mem(s, c) ==
  LET size == Clamped(c, DumpMemDefault, DumpMemLimit)
  IN  Untrack(write_ack([s EXCEPT !.last_dump = [op |-> "dump_mem",
                                                 addr |-> ParseCount(c),
                                                 bytes |-> size]],
                        Ack("mem", ParseCount(c), size)))

cmd_dump_regs_bin(s, c) ==
  IF c.path = "" THEN Untrack(write_ack(s, Ack("error dump_regs_bin: no path", 0, 0)))
  ELSE Untrack(write_ack(s, AckT("ok dump_regs_bin", c.path)))

cmd_dump_mem_bin(s, c) ==
  IF ThirdPath(c) = "" \/ SecondNum(c, 0) = 0
  THEN Untrack(write_ack(s, Ack("error dump_mem_bin: need addr size path", 0, 0)))
  ELSE IF CanOpen(ThirdPath(c))
  THEN Untrack(write_ack([s EXCEPT !.last_dump = [op |-> "dump_mem_bin",
                                                  addr |-> ParseCount(c),
                                                  bytes |-> Clamped(c, 0, DumpBinLimit)]],
                         Ack("ok dump_mem_bin", 0, 0)))
  ELSE Untrack(write_ack(s, AckT("error dump_mem_bin: cannot open", ThirdPath(c))))

cmd_show_window(s) ==
  Untrack(write_ack([s EXCEPT !.pending_show_window = TRUE], Ack("ok show_window", 0, 0)))

cmd_hide_window(s) ==
  Untrack(write_ack([s EXCEPT !.pending_hide_window = TRUE], Ack("ok hide_window", 0, 0)))

\* the statics a command can change
ControlFields ==
  {"automation_active", "frame_counter", "frames_to_advance", "run_to_frame_target",
   "pc_trace_file", "pc_trace_active", "pc_trace_frame_mode",
   "instructions_to_step", "instruction_paused", "breakpoints",
   "cpu_hook_active", "ack_seq", "input_buttons", "input_override",
   "pending_screenshot_path", "pending_show_window", "pending_hide_window"}
Touched(s, r) == {f \in ControlFields : s[f] # r[f]}

\* the commands that set the frame mode or the step state
CtlOps == {"frame_advance", "run_to_frame", "run", "pause", "step", "continue"}
NoteCtl(s, r, c) ==
  IF c.op \in CtlOps
     \/ (c.op = "pc_trace_frame" /\ r.ack_file.msg = "ok pc_trace_frame_started")
  THEN [op |-> c.op, ticks |-> 0,
        cut |-> (c.op = "pause" /\ s.frames_to_advance > 0
                 /\ s.last_ctl.op = "frame_advance")]
  ELSE s.last_ctl

\* the if / else-if chain on the command token
dispatch(t, c) ==
  CASE c.op = "frame_advance" -> cmd_frame_advance(t, c)
    [] c.op = "screenshot" -> cmd_screenshot(t, c)
    [] c.op = "input" -> cmd_input(t, c)
    [] c.op = "input_release" -> cmd_input_release(t, c)
    [] c.op = "input_clear" -> cmd_input_clear(t)
    [] c.op = "run_to_frame" -> cmd_run_to_frame(t, c)
    [] c.op = "run" -> cmd_run(t)
    [] c.op = "pause" -> cmd_pause(t)
    [] c.op = "quit" -> cmd_quit(t)
    [] c.op = "dump_regs" -> cmd_dump_regs(t)
    [] c.op = "dump_mem" -> cmd_dump_mem(t, c)
    [] c.op = "status" -> cmd_status(t)
    [] c.op = "dump_regs_bin" -> cmd_dump_regs_bin(t, c)
    [] c.op = "dump_mem_bin" -> cmd_dump_mem_bin(t, c)
    [] c.op = "pc_trace_frame" -> cmd_pc_trace_frame(t, c)
    [] c.op = "step" -> cmd_step(t, c)
    [] c.op = "breakpoint" -> cmd_breakpoint(t, c)
    [] c.op = "breakpoint_clear" -> cmd_breakpoint_clear(t)
    [] c.op = "breakpoint_list" -> cmd_breakpoint_list(t)
    [] c.op = "continue" -> cmd_continue(t)
    [] c.op = "show_window" -> cmd_show_window(t)
    [] c.op = "hide_window" -> cmd_hide_window(t)
    [] OTHER -> cmd_unknown(t, c)

\* line.empty() || line[0] == '#'
Skipped(c) == ~c.ws /\ (c.op = "" \/ c.op = "#")

process_command(s, c) ==
  IF Skipped(c) THEN s
  ELSE LET t == [s EXCEPT !.last_dispatch = Append(@, c), !.in_dispatch = TRUE]
           r == dispatch(t, c)
       IN  [r EXCEPT !.in_dispatch = FALSE,
                     !.dispatch_acks = Append(@, r.acks - s.acks),
                     !.touched = Touched(s, r),
                     !.last_ctl = NoteCtl(s, r, c)]

\* ------------------------------------------------------ action-file watcher
\* a faulty reader that dispatches the lines of a file last line first
RECURSIVE dispatch_lines_newest_first(_, _)
dispatch_lines_newest_first(s, ls) ==
  IF ls = <<>> THEN s
  ELSE process_command(dispatch_lines_newest_first(s, Tail(ls)), Head(ls))

RECURSIVE dispatch_lines(_, _)
dispatch_lines(s, ls) ==
  IF ls = <<>> THEN s ELSE dispatch_lines(process_command(s, Head(ls)), Tail(ls))

\* stat() mtime and size against the remembered pair
stat_changed(s, f) ==
  ~(f.mtime = s.last_action_mtime /\ f.size = s.last_action_size)

\* f is the file as stat() finds it, ls the command lines a read of it returns
check_action_file(s, f, ls) ==
  IF ~f.exists THEN s
  ELSE IF ~stat_changed(s, f) THEN s
  ELSE LET s1 == [s EXCEPT !.last_action_mtime = f.mtime,
                           !.last_action_size = f.size]
           s2 == dispatch_lines(s1, <<HeaderLine>> \o ls)
       IN  [s2 EXCEPT !.accepted_header = f.header,
                      !.repeat_header = (f.header = s.accepted_header
                                         /\ s2.last_dispatch # <<>>)]

\* ------------------------------------------------------------ orchestrator
\* The client writes "# <seq><padding>" and then one command per line, each
\* line padded with blanks to LineWidth (the dispatcher skips blanks), and
\* renames the file into place.
LineWidth == Len("pc_trace_frame /tmp/pc.bin")
Digits(n) == IF n < 10 THEN 1 ELSE 2
HeaderLen(h) == 2 + Digits(h.seq) + h.pad + 1
LineLen(c) == LineWidth + 1
RECURSIVE LinesLen(_)
LinesLen(ls) == IF ls = <<>> THEN 0 ELSE LineLen(Head(ls)) + LinesLen(Tail(ls))
FileSize(h, ls) == HeaderLen(h) + LinesLen(ls)

Written(m, h, ls) ==
  [file |-> [exists |-> TRUE, mtime |-> m, size |-> FileSize(h, ls), header |-> h],
   lines |-> ls]
\* the poll finds the file the previous poll found
Unchanged == [d |-> 0, file |-> action_file, lines |-> <<>>]

Commands ==
  {CmdN("frame_advance", n) : n \in AdvanceCounts}
  \cup {CmdN("run_to_frame", n) : n \in Targets}
  \cup {CmdN("step", n) : n \in StepCounts}
  \cup {CmdN("breakpoint", a) : a \in BpAddrs}
  \cup {CmdP("pc_trace_frame", p) : p \in {GoodPath}}
  \cup {Cmd(o) : o \in {"run", "pause", "quit", "status", "continue",
                        "breakpoint_clear"}}
\* the bodies the client sends: one command per file
Bodies == {<<c>> : c \in Commands}

\* The documented client: the padding changes with the sequence number, so
\* that each file differs in size from the one it replaces.
ClientHeaders == {Header(1, 1), Header(2, 0)}
ClientInputs ==
  {Unchanged}
  \cup {[d |-> 0] @@ Written(clock, h, ls) :
          h \in ClientHeaders \ {action_file.header}, ls \in Bodies}

\* The client of the quit scenarios: a few commands around quit.
QuitCommands ==
  {Cmd("quit"), Cmd("pause"), CmdN("step", 1), CmdN("frame_advance", 1)}
  \cup {CmdN("breakpoint", a) : a \in BpAddrs}
QuitInputs ==
  {Unchanged}
  \cup {[d |-> 0] @@ Written(clock, h, <<c>>) :
          h \in ClientHeaders \ {action_file.header}, c \in QuitCommands}

\* Any orchestrator: what a poll can find d seconds after the previous poll
\* is the file the previous poll found, or a file written since, stamped
\* with a second between the two polls; headers may repeat and sizes agree.
Headers == {Header(1, 0), Header(2, 0), Header(2, 1)}
WatchCommands == {Cmd("status"), Cmd("pause"), CmdN("frame_advance", 1)}
WatchBodies == {<<c>> : c \in WatchCommands}
AnyInputs ==
  {Unchanged}
  \cup UNION {{[d |-> d] @@ Written(m, h, ls) :
                 m \in clock..(clock + d), h \in Headers, ls \in WatchBodies} :
              d \in {e \in {0, 1} : clock + e <= MaxClock}}

\* A client that uses the whole vocabulary, well-formed and not: every
\* command once, the commands with a required number also without it and
\* with a token that is no number.
NumericOps == {"breakpoint", "run_to_frame", "dump_mem", "dump_mem_bin"}
VocabCommands ==
  {CmdN("frame_advance", 1), CmdN("run_to_frame", 3),
   CmdN("run_to_frame", NegativeTarget), CmdN("step", 1),
   CmdN("breakpoint", 16), CmdN(UnknownToken, 42),
   CmdP("screenshot", GoodPath), Cmd("screenshot"),
   CmdP("input", GoodButton), CmdP("input", BadButton),
   CmdP("input_release", GoodButton),
   CmdP("pc_trace_frame", GoodPath), CmdP("pc_trace_frame", BadPath),
   CmdP("dump_regs_bin", GoodPath),
   CmdM("dump_mem", 16, 4, ""), CmdM("dump_mem_bin", 16, 4, GoodPath)}
  \cup {Cmd(o) : o \in {"run", "pause", "quit", "status", "continue",
                        "breakpoint_clear", "breakpoint_list", "input_clear",
                        "dump_regs", "show_window", "hide_window"}}
  \cup {Cmd(o) : o \in NumericOps}
  \cup {CmdJ(o) : o \in NumericOps}
\* the sequence numbers count up from 1 and the padding alternates
VocabHeader(q) == Header(q, q % 2)
VocabInputs ==
  {Unchanged}
  \cup {[d |-> 0] @@ Written(clock, VocabHeader(action_file.header.seq + 1), <<c>>) :
          c \in IF action_file.header.seq < MaxFiles THEN VocabCommands ELSE {}}

\* ------------------------------------------------------------------- Init
\* The static initialisers of automation.cpp; no action file written yet.
Init ==
  /\ automation_active = FALSE
  /\ inited = FALSE
  /\ frame_counter = 0
  /\ frames_to_advance = -1
  /\ run_to_frame_target = -1
  /\ pc_trace_file = FALSE
  /\ pc_trace_active = FALSE
  /\ pc_trace_frame_mode = FALSE
  /\ instructions_to_step = -1
  /\ instruction_paused = FALSE
  /\ breakpoints = <<>>
  /\ cpu_hook_active = FALSE
  /\ ack_seq = 0
  /\ last_action_mtime = 0
  /\ last_action_size = 0
  /\ ack_file = NoAck
  /\ exit_requested = FALSE
  /\ action_file = NoFile
  /\ clock = 1
  /\ pc = "run"
  /\ kill_calls = 0
  /\ shutdown_acks = 0
  /\ last_dispatch = <<>>
  /\ gh = NoTrack
  /\ seen_unblock = FALSE
  /\ seen_trace = FALSE
  /\ accepted_header = NoHeader
  /\ repeat_header = FALSE
  /\ pause_arg = 0
  /\ input_buttons = {}
  /\ input_override = FALSE
  /\ pending_screenshot_path = ""
  /\ pending_show_window = FALSE
  /\ pending_hide_window = FALSE
  /\ dispatch_acks = <<>>
  /\ async_ack = "none"
  /\ touched = {}
  /\ last_ctl = NoCtl
  /\ trace_age = -1
  /\ handle_dropped = FALSE
  /\ watchpoint = WatchOff
  /\ wp_log = 0
  /\ mem_write = NoWrite
  /\ pad = NoRequest
  /\ shots_owed = {}
  /\ last_dump = NoDump
  /\ window_call = NoCall

\* what bounds the exploration of a state the control plane would move to
InBounds(s) ==
  /\ Len(s.breakpoints) <= MaxBps
  /\ s.ack_seq <= MaxSeq
  /\ s.frame_counter <= MaxFrame

\* ------------------------------------------------------------- public API
\* the older revision of Automation_Init started free-running
init_free_running == -1
\* the latest revision starts paused
init_frames_to_advance == 0

Automation_Init ==
  /\ ~inited
  /\ inited' = TRUE
  /\ SetStatics(write_ack([Statics EXCEPT !.automation_active = TRUE,
                                          !.frame_counter = 0,
                                          !.frames_to_advance = init_frames_to_advance,
                                          !.last_action_mtime = 0,
                                          !.last_action_size = 0],
                          Ack("ready", 0, 0)))
  /\ UNCHANGED <<action_file, clock, pc, kill_calls>>

\* the frame tick's own work, before it polls the action file
run_to_frame_check(s) ==
  IF s.run_to_frame_target >= 0 /\ s.frame_counter >= s.run_to_frame_target
  THEN write_ack([s EXCEPT !.frames_to_advance = 0, !.run_to_frame_target = -1],
                 Ack("done run_to_frame", s.frame_counter, 0))
  ELSE s

advance_countdown(s) ==
  IF s.frames_to_advance > 0
  THEN LET s1 == [s EXCEPT !.frames_to_advance = @ - 1]
       IN  IF s1.frames_to_advance = 0
           THEN IF s1.pc_trace_frame_mode /\ s1.pc_trace_file
                THEN write_ack(update_cpu_hook(
                         [s1 EXCEPT !.pc_trace_file = FALSE,
                                    !.pc_trace_active = FALSE,
                                    !.pc_trace_frame_mode = FALSE]),
                       Ack("done pc_trace_frame", s1.frame_counter, 0))
                ELSE write_ack(s1, Ack("done frame_advance", s1.frame_counter, 0))
           ELSE s1
  ELSE s

count_tick(s) ==
  [s EXCEPT !.gh.ticks =
              IF s.gh.fresh /\ @ <= (IF s.gh.op = "run_to_frame" THEN 0 ELSE s.gh.n)
              THEN @ + 1 ELSE @,
            !.last_ctl.ticks = IF s.last_ctl.op # "none" THEN 1 ELSE @,
            !.trace_age = IF @ = 0 THEN 1 ELSE @]

\* what the caller hands to Automation_Poll: no surface, a surface PNGWrite
\* can save, or a surface on which PNGWrite throws
FrameBuffers == {"none", "ok", "fail"}

do_screenshot(s, fb) ==
  IF s.pending_screenshot_path = "" \/ fb = "none" THEN s
  ELSE [(IF fb = "ok"
         THEN write_ack(s, AckT("ok screenshot", s.pending_screenshot_path))
         ELSE write_ack(s, Ack("error screenshot", 0, 0)))
        EXCEPT !.pending_screenshot_path = "",
               !.shots_owed = @ \ {s.pending_screenshot_path}]

\* a faulty tick that polls once and returns without waiting
frame_blocked_until_polled(s) == FALSE
\* a faulty spin-wait that also holds the emulator while frames count down
frame_blocked_while_counting(s) == s.frames_to_advance >= 0 /\ s.automation_active
\* the condition of the frame-level spin-wait
frame_blocked(s) == s.frames_to_advance = 0 /\ s.automation_active

\* a faulty tick that counts no frame while the frame mode is Paused
frame_tick_counting_unpaused(s, fb) ==
  advance_countdown(run_to_frame_check(do_screenshot(count_tick(
    [s EXCEPT !.frame_counter = IF s.frames_to_advance = 0 THEN @ ELSE @ + 1]), fb)))

frame_tick(s, fb) ==
  advance_countdown(run_to_frame_check(do_screenshot(count_tick(
    [s EXCEPT !.frame_counter = @ + 1]), fb)))

\* a poll of the action file from state s, finding in
Polled(s, in) ==
  LET r == check_action_file(s, in.file, in.lines)
  IN  /\ InBounds(r)
      /\ SetStatics(r)
      /\ action_file' = in.file
      /\ clock' = clock + in.d

Automation_Poll(Inputs) ==
  /\ pc = "run"
  /\ automation_active
  /\ \E in \in Inputs :
     \E fb \in (IF pending_screenshot_path = "" THEN {"none"} ELSE FrameBuffers) :
       /\ Polled(frame_tick(Statics, fb), in)
       /\ pc' = IF frame_blocked(check_action_file(frame_tick(Statics, fb),
                                                   in.file, in.lines))
                THEN "frame_wait" ELSE "run"
  /\ UNCHANGED <<inited, kill_calls>>

\* one turn of the frame-level spin-wait: sleep, poll, test the condition
FrameWaitPoll(Inputs) ==
  /\ pc = "frame_wait"
  /\ frame_blocked(Statics)
  /\ \E in \in Inputs :
       /\ Polled(Statics, in)
       /\ pc' = IF frame_blocked(check_action_file(Statics, in.file, in.lines))
                THEN "frame_wait" ELSE "run"
  /\ UNCHANGED <<inited, kill_calls>>

\* one turn of the frame-level spin-wait, explored up to MaxList breakpoints
ListWaitPoll(Inputs) ==
  /\ pc = "frame_wait"
  /\ frame_blocked(Statics)
  /\ \E in \in Inputs :
       LET r == check_action_file(Statics, in.file, in.lines)
       IN  /\ Len(r.breakpoints) <= MaxList
           /\ SetStatics(r)
           /\ action_file' = in.file
           /\ clock' = clock + in.d
           /\ pc' = IF frame_blocked(r) THEN "frame_wait" ELSE "run"
  /\ UNCHANGED <<inited, kill_calls>>

\* the spin-wait finds its condition false (after shutdown) and Poll returns
FrameWaitExit ==
  /\ pc = "frame_wait"
  /\ ~frame_blocked(Statics)
  /\ pc' = "run"
  /\ SetStatics(Statics)
  /\ UNCHANGED <<inited, action_file, clock, kill_calls>>

\* a faulty shutdown that does not test automation_active
Automation_Kill_unguarded ==
  /\ inited
  /\ kill_calls < MaxKills
  /\ kill_calls' = kill_calls + 1
  /\ SetStatics([write_ack(Statics, Ack("shutdown", frame_counter, 0))
                   EXCEPT !.automation_active = FALSE])
  /\ UNCHANGED <<inited, action_file, clock, pc>>

Automation_Kill ==
  /\ inited
  /\ kill_calls < MaxKills
  /\ kill_calls' = kill_calls + 1
  /\ IF automation_active
     THEN SetStatics([write_ack(Statics, Ack("shutdown", frame_counter, 0))
                        EXCEPT !.automation_active = FALSE])
     ELSE SetStatics(Statics)
  /\ UNCHANGED <<inited, action_file, clock, pc>>

\* ------------------------------------------------------- instruction hook
bp_match(bps, a) == \E i \in 1..Len(bps) : bps[i] = a
step_countdown(n) == IF n > 0 THEN n - 1 ELSE n
\* a faulty test that fires one instruction early
should_pause_early(bp_hit, n) == bp_hit \/ n = 1
should_pause(bp_hit, n) == bp_hit \/ n = 0

\* a faulty spin-wait that matches the breakpoints again before it lets the
\* hook return
insn_blocked_rematching(s) ==
  /\ s.automation_active
  /\ s.instruction_paused \/ (\E i \in 1..Len(s.breakpoints) :
                                s.breakpoints[i] = s.pause_arg)
\* a faulty spin-wait condition that does not test automation_active
insn_blocked_ignoring_active(s) == s.instruction_paused
\* the condition of the instruction-level spin-wait
insn_blocked(s) == s.instruction_paused /\ s.automation_active

\* a faulty hook that keeps the step countdown when it pauses
hook_body_keeping_countdown(s, a, real_pc) ==
  LET bp_hit == bp_match(s.breakpoints, a)
      s1 == [s EXCEPT !.instructions_to_step = step_countdown(@),
                      !.gh.hooks = IF s.gh.fresh /\ s.gh.op = "step" /\ @ <= s.gh.n
                                   THEN @ + 1 ELSE @]
  IN  IF ~should_pause(bp_hit, s1.instructions_to_step) THEN s1
      ELSE LET s2 == [s1 EXCEPT !.instruction_paused = TRUE,
                                !.ack_seq = @ + 1,
                                !.pause_arg = a]
           IN  IF bp_hit
               THEN write_ack(s2, AckBreak(a, a, s2.frame_counter, s2.ack_seq))
               ELSE write_ack(s2, AckSeq("done step", real_pc, s2.frame_counter,
                                         s2.ack_seq))

\* a faulty hook that reports its argument when a step completes
hook_body_reporting_decode_pc(s, a, real_pc) ==
  LET bp_hit == bp_match(s.breakpoints, a)
      s1 == [s EXCEPT !.instructions_to_step = step_countdown(@),
                      !.gh.hooks = IF s.gh.fresh /\ s.gh.op = "step" /\ @ <= s.gh.n
                                   THEN @ + 1 ELSE @]
  IN  IF ~should_pause(bp_hit, s1.instructions_to_step) THEN s1
      ELSE LET s2 == [s1 EXCEPT !.instruction_paused = TRUE,
                                !.instructions_to_step = -1,
                                !.ack_seq = @ + 1,
                                !.pause_arg = a]
           IN  IF bp_hit
               THEN write_ack(s2, AckBreak(a, a, s2.frame_counter, s2.ack_seq))
               ELSE write_ack(s2, AckSeq("done step", a, s2.frame_counter,
                                         s2.ack_seq))

hook_body(s, a, real_pc) ==
  LET bp_hit == bp_match(s.breakpoints, a)
      s1 == [s EXCEPT !.instructions_to_step = step_countdown(@),
                      !.gh.hooks = IF s.gh.fresh /\ s.gh.op = "step" /\ @ <= s.gh.n
                                   THEN @ + 1 ELSE @]
  IN  IF ~should_pause(bp_hit, s1.instructions_to_step) THEN s1
      ELSE LET s2 == [s1 EXCEPT !.instruction_paused = TRUE,
                                !.instructions_to_step = -1,
                                !.ack_seq = @ + 1,
                                !.pause_arg = a]
           IN  IF bp_hit
               THEN write_ack(s2, AckBreak(a, a, s2.frame_counter, s2.ack_seq))
               ELSE write_ack(s2, AckSeq("done step", real_pc, s2.frame_counter,
                                         s2.ack_seq))

\* whether this call of the hook reaches its spin-wait
hook_pauses(s, a) ==
  should_pause(bp_match(s.breakpoints, a), step_countdown(s.instructions_to_step))

\* the hook's exit: blocked in the spin-wait, or back in the emulator with
\* the value it returns
hook_exit(s, blocked) ==
  [s EXCEPT !.hook_return = IF blocked THEN NoReturn ELSE HookReturn]

Automation_DebugHook ==
  /\ pc = "run"
  /\ cpu_hook_active
  /\ \E a \in Addrs, d \in FetchAhead :
       LET s == hook_body(Statics, a, a + d)
           blocked == hook_pauses(Statics, a) /\ insn_blocked(s)
       IN  /\ InBounds(s)
           /\ SetStatics(hook_exit(s, blocked))
           /\ pc' = IF blocked THEN "insn_wait" ELSE "run"
  /\ UNCHANGED <<inited, action_file, clock, kill_calls>>

\* one turn of the instruction-level spin-wait
InsnWaitPoll(Inputs) ==
  /\ pc = "insn_wait"
  /\ insn_blocked(Statics)
  /\ \E in \in Inputs :
       LET r == check_action_file(Statics, in.file, in.lines)
       IN  /\ InBounds(r)
           /\ SetStatics(hook_exit(r, insn_blocked(r)))
           /\ action_file' = in.file
           /\ clock' = clock + in.d
           /\ pc' = IF insn_blocked(r) THEN "insn_wait" ELSE "run"
  /\ UNCHANGED <<inited, kill_calls>>

\* the spin-wait finds its condition false (after shutdown) and the hook
\* returns
InsnWaitExit ==
  /\ pc = "insn_wait"
  /\ ~insn_blocked(Statics)
  /\ pc' = "run"
  /\ SetStatics(hook_exit(Statics, FALSE))
  /\ UNCHANGED <<inited, action_file, clock, kill_calls>>

\* ------------------------------------------------------- input injection
\* the two bytes of the Saturn digital pad, each the set of its set bits
LowByte(m) == {b \in m : b < 8}
HighByte(m) == {b - 8 : b \in {x \in m : x >= 8}}

\* a faulty injector that replaces the caller's data by the mask
Automation_GetInput_exclusive(s, port, data, data_size) ==
  IF ~s.automation_active \/ ~s.input_override \/ port # 0
  THEN [ret |-> FALSE, data |-> data]
  ELSE [ret |-> TRUE,
        data |-> IF data_size >= 2
                 THEN <<LowByte(s.input_buttons), HighByte(s.input_buttons)>>
                 ELSE data]

Automation_GetInput(s, port, data, data_size) ==
  IF ~s.automation_active \/ ~s.input_override \/ port # 0
  THEN [ret |-> FALSE, data |-> data]
  ELSE [ret |-> TRUE,
        data |-> IF data_size >= 2
                 THEN <<data[1] \cup LowByte(s.input_buttons),
                        data[2] \cup HighByte(s.input_buttons)>>
                 ELSE data]

\* what the emulator asks for: the port, the size of the device's data and
\* the data the keyboard mapping has produced so far
Ports == {0, 1}
DataSizes == {1, 2}
PadData == {<<{}, {}>>, <<{0}, {}>>, <<{4}, {3}>>}

\* the running emulator (or one without automation) reads an input port
InputRequest ==
  /\ pc = "run"
  /\ \E port \in Ports, data_size \in DataSizes, data \in PadData :
       LET r == Automation_GetInput(Statics, port, data, data_size)
       IN  SetStatics([Statics EXCEPT !.pad = [port |-> port, size |-> data_size,
                                               before |-> data, after |-> r.data,
                                               ret |-> r.ret]])
  /\ UNCHANGED <<inited, action_file, clock, pc, kill_calls>>

\* ------------------------------------------------------ window visibility
\* The driver's main loop asks between frames whether a show_window or a
\* hide_window command has arrived; neither function tests automation_active.
Automation_ConsumePendingShowWindow_keeping_flag(s) ==
  [s |-> s, ret |-> s.pending_show_window]

Automation_ConsumePendingShowWindow(s) ==
  IF s.pending_show_window
  THEN [s |-> [s EXCEPT !.pending_show_window = FALSE], ret |-> TRUE]
  ELSE [s |-> s, ret |-> FALSE]

Automation_ConsumePendingHideWindow(s) ==
  IF s.pending_hide_window
  THEN [s |-> [s EXCEPT !.pending_hide_window = FALSE], ret |-> TRUE]
  ELSE [s |-> s, ret |-> FALSE]

ConsumeShow ==
  /\ pc = "run"
  /\ LET r == Automation_ConsumePendingShowWindow(Statics)
     IN  SetStatics([r.s EXCEPT !.window_call = [fn |-> "show", ret |-> r.ret]])
  /\ UNCHANGED <<inited, action_file, clock, pc, kill_calls>>

ConsumeHide ==
  /\ pc = "run"
  /\ LET r == Automation_ConsumePendingHideWindow(Statics)
     IN  SetStatics([r.s EXCEPT !.window_call = [fn |-> "hide", ret |-> r.ret]])
  /\ UNCHANGED <<inited, action_file, clock, pc, kill_calls>>

\* ---------------------------------------------------- memory watchpoint
\* automation_ss.h declares Automation_SetWatchpoint and
\* Automation_ClearWatchpoint, automation.h the hit callback that the CPU
\* store path and the SCU DMA write path call; the commands and the callback
\* behave as documented.
WaitingStatics == [Statics EXCEPT !.in_dispatch = TRUE]

cmd_watchpoint(s, a) ==
  write_ack([s EXCEPT !.watchpoint = a], Ack("ok watchpoint", a, 0))

cmd_watchpoint_clear(s) ==
  write_ack([s EXCEPT !.watchpoint = WatchOff], Ack("ok watchpoint_clear", 0, 0))

\* a faulty engine that watches the CPU store path only
watch_match_cpu_only(w, source, a) == w # WatchOff /\ a = w /\ source = "CPU"
\* the test both write paths make on a 4-byte write to address a
watch_match(w, source, a) == w # WatchOff /\ a = w

\* one line appended to watchpoint_hits.txt and one ack (without the address)
Automation_WatchpointHit(s, a, new_val, source) ==
  write_ack([s EXCEPT !.wp_log = @ + 1],
            Ack("hit watchpoint", new_val, s.frame_counter))

WriteValues == {1, 2}

\* the running emulator writes 4 bytes to memory
MemWrite(source) ==
  /\ pc = "run"
  /\ automation_active
  /\ wp_log < MaxHits
  /\ \E a \in Addrs, v \in WriteValues :
       LET s == [Statics EXCEPT !.mem_write = [source |-> source, addr |-> a]]
       IN  SetStatics(IF watch_match(watchpoint, source, a)
                      THEN Automation_WatchpointHit(s, a, v, source)
                      ELSE s)
  /\ UNCHANGED <<inited, action_file, clock, pc, kill_calls>>

CpuWrite == MemWrite("CPU")
DmaWrite == MemWrite("DMA")

\* a poll of the frame-level spin-wait dispatches watchpoint <addr>
WatchpointArm ==
  /\ pc = "frame_wait"
  /\ frame_blocked(Statics)
  /\ \E a \in Addrs : SetStatics(cmd_watchpoint(WaitingStatics, a))
  /\ UNCHANGED <<inited, action_file, clock, pc, kill_calls>>

\* a poll of the frame-level spin-wait dispatches watchpoint_clear
WatchpointDisarm ==
  /\ pc = "frame_wait"
  /\ frame_blocked(Statics)
  /\ SetStatics(cmd_watchpoint_clear(WaitingStatics))
  /\ UNCHANGED <<inited, action_file, clock, pc, kill_calls>>

\* ------------------------------------------------------------- shutdown
\* the main loop sees the exit flag raised by quit and shuts down
MainLoopExit == exit_requested /\ Automation_Kill
\* the process is shut down without quit (the window is closed)
ProcessShutdown == ~exit_requested /\ Automation_Kill

Next ==
  \/ Automation_Init
  \/ Automation_Poll(ClientInputs)
  \/ FrameWaitPoll(ClientInputs)
  \/ FrameWaitExit
  \/ Automation_DebugHook
  \/ InsnWaitPoll(ClientInputs)
  \/ InsnWaitExit
  \/ MainLoopExit
  \/ ProcessShutdown

\* the control plane driven by the documented client
Spec == Init /\ [][Next]_vars

NextWatch ==
  \/ Automation_Init
  \/ Automation_Poll(AnyInputs)
  \/ FrameWaitPoll(AnyInputs)
  \/ FrameWaitExit
  \/ ProcessShutdown

\* the action-file watcher under any orchestrator and passing time
SpecWatch == Init /\ [][NextWatch]_vars

NextVocab ==
  \/ Automation_Init
  \/ Automation_Poll(VocabInputs)
  \/ FrameWaitPoll(VocabInputs)
  \/ FrameWaitExit
  \/ Automation_DebugHook
  \/ InsnWaitPoll(VocabInputs)
  \/ InsnWaitExit
  \/ MainLoopExit
  \/ ProcessShutdown

\* the control plane driven through its whole vocabulary, a few files a run
SpecVocab == Init /\ [][NextVocab]_vars

NextQuit ==
  \/ Automation_Init
  \/ Automation_Poll(QuitInputs)
  \/ FrameWaitPoll(QuitInputs)
  \/ FrameWaitExit
  \/ Automation_DebugHook
  \/ InsnWaitPoll(QuitInputs)
  \/ InsnWaitExit
  \/ MainLoopExit
  \/ ProcessShutdown

\* The quit scenarios under the scheduling the threads guarantee: the main
\* loop, once its exit flag is raised, gets to shut the control plane down,
\* and a spin-wait whose condition is false gets to leave its loop.
SpecQuit ==
  /\ Init
  /\ [][NextQuit]_vars
  /\ WF_vars(MainLoopExit)
  /\ WF_vars(FrameWaitExit)
  /\ WF_vars(InsnWaitExit)

\* Any orchestrator talking to a held emulator: the commands that take it
\* from one spin-wait to the other, in files that may share second and size.
WaitCommands == {Cmd("status"), CmdN("step", 1), Cmd("pause")}
WaitInputs ==
  {Unchanged}
  \cup UNION {{[d |-> d] @@ Written(m, h, <<c>>) :
                 m \in clock..(clock + d), h \in Headers, c \in WaitCommands} :
              d \in {e \in {0, 1} : clock + e <= MaxClock}}

NextWait ==
  \/ Automation_Init
  \/ Automation_Poll(WaitInputs)
  \/ FrameWaitPoll(WaitInputs)
  \/ FrameWaitExit
  \/ Automation_DebugHook
  \/ InsnWaitPoll(WaitInputs)
  \/ InsnWaitExit
  \/ ProcessShutdown

\* both spin-waits under any orchestrator and passing time
SpecWait == Init /\ [][NextWait]_vars

\* a client that sends frame_advance and step with a count of 1, of 2, with
\* no count, with a token that is no number, with 0 and with a negative count
LowCounts == {0, -1}
CountCommands ==
  {CmdN(o, n) : o \in {"frame_advance", "step"}, n \in LowCounts \cup {1, 2}}
  \cup {Cmd(o) : o \in {"frame_advance", "step"}}
  \cup {CmdJ(o) : o \in {"frame_advance", "step"}}
CountInputs ==
  {Unchanged}
  \cup {[d |-> 0] @@ Written(clock, VocabHeader(action_file.header.seq + 1), <<c>>) :
          c \in IF action_file.header.seq < MaxFiles THEN CountCommands ELSE {}}

NextCount ==
  \/ Automation_Init
  \/ Automation_Poll(CountInputs)
  \/ FrameWaitPoll(CountInputs)
  \/ FrameWaitExit
  \/ Automation_DebugHook
  \/ InsnWaitPoll(CountInputs)
  \/ InsnWaitExit
  \/ ProcessShutdown

\* the two countdowns under counts of every shape
SpecCount == Init /\ [][NextCount]_vars

\* a client that dumps memory with sizes below, at and above the two limits
DumpSizes ==
  {0, 4, DumpMemLimit, DumpMemLimit + 1, DumpBinLimit, DumpBinLimit + 1}
DumpCommands ==
  {CmdM("dump_mem", 16, n, "") : n \in DumpSizes}
  \cup {CmdM("dump_mem_bin", 16, n, p) : n \in DumpSizes, p \in {GoodPath, BadPath}}
  \cup {CmdW("dump_mem", 16, ""), CmdW("dump_mem_bin", 16, GoodPath),
        Cmd("dump_mem"), Cmd("dump_mem_bin"), Cmd("run"), Cmd("pause")}
DumpInputs ==
  {Unchanged}
  \cup {[d |-> 0] @@ Written(clock, h, <<c>>) :
          h \in ClientHeaders \ {action_file.header}, c \in DumpCommands}

NextDump ==
  \/ Automation_Init
  \/ Automation_Poll(DumpInputs)
  \/ FrameWaitPoll(DumpInputs)
  \/ FrameWaitExit
  \/ ProcessShutdown

\* the memory dumps under sizes around the limits
SpecDump == Init /\ [][NextDump]_vars

\* a client that sets breakpoints, the same address more than once, lists
\* and clears them while the emulator is frame-paused
ListCommands ==
  {CmdN("breakpoint", a) : a \in Addrs}
  \cup {Cmd("breakpoint_clear"), Cmd("breakpoint_list")}
ListInputs ==
  {Unchanged}
  \cup {[d |-> 0] @@ Written(clock, h, <<c>>) :
          h \in ClientHeaders \ {action_file.header}, c \in ListCommands}

NextList ==
  \/ Automation_Init
  \/ Automation_Poll(ListInputs)
  \/ ListWaitPoll(ListInputs)
  \/ FrameWaitExit
  \/ ProcessShutdown

\* the breakpoint list under a client that repeats addresses
SpecList == Init /\ [][NextList]_vars

\* a client that steps by counts of every size across a breakpoint
StepCommands ==
  {CmdN("step", n) : n \in {0, 1, 2}}
  \cup {CmdN("breakpoint", 16), Cmd("continue"), Cmd("status")}
StepInputs ==
  {Unchanged}
  \cup {[d |-> 0] @@ Written(clock, h, <<c>>) :
          h \in ClientHeaders \ {action_file.header}, c \in StepCommands}

NextStep ==
  \/ Automation_Init
  \/ Automation_Poll(StepInputs)
  \/ FrameWaitPoll(StepInputs)
  \/ FrameWaitExit
  \/ Automation_DebugHook
  \/ InsnWaitPoll(StepInputs)
  \/ InsnWaitExit
  \/ ProcessShutdown

\* the step countdown under a client that steps across a breakpoint
SpecStep == Init /\ [][NextStep]_vars

\* a client that writes several commands into one file
ListThenCount == <<CmdN("breakpoint", 16), CmdN("breakpoint", 32), Cmd("breakpoint_list")>>
ReverseList == <<CmdN("breakpoint", 32), CmdN("breakpoint", 16)>>
ClearThenSet == <<Cmd("breakpoint_clear"), CmdN("breakpoint", 16)>>
PauseThenRun == <<Cmd("pause"), Cmd("run")>>
RunThenPause == <<Cmd("run"), Cmd("pause")>>
MultiBodies == {ListThenCount, ReverseList, ClearThenSet, PauseThenRun, RunThenPause}
MultiInputs ==
  {Unchanged}
  \cup {[d |-> 0] @@ Written(clock, h, ls) :
          h \in ClientHeaders \ {action_file.header}, ls \in MultiBodies}

NextMulti ==
  \/ Automation_Init
  \/ Automation_Poll(MultiInputs)
  \/ ListWaitPoll(MultiInputs)
  \/ FrameWaitExit
  \/ ProcessShutdown

\* the reader under a client that writes several commands into one file
SpecMulti == Init /\ [][NextMulti]_vars

\* a client that shows and hides the window and lets the emulator run
WindowCommands == {Cmd(o) : o \in {"show_window", "hide_window", "run", "pause"}}
WindowInputs ==
  {Unchanged}
  \cup {[d |-> 0] @@ Written(clock, h, <<c>>) :
          h \in ClientHeaders \ {action_file.header}, c \in WindowCommands}

NextWindow ==
  \/ Automation_Init
  \/ Automation_Poll(WindowInputs)
  \/ FrameWaitPoll(WindowInputs)
  \/ FrameWaitExit
  \/ ConsumeShow
  \/ ConsumeHide
  \/ ProcessShutdown

\* the window flags under a client that shows and hides the window
SpecWindow == Init /\ [][NextWindow]_vars

\* a client whose files hold empty lines, comment lines and lines of blanks
\* among the commands
LineBodies ==
  {<<Cmd("status")>>, <<Cmd("")>>, <<Cmd("#")>>, <<CmdS("")>>,
   <<Cmd("pause"), Cmd(""), Cmd("#")>>, <<Cmd("run"), CmdS("")>>,
   <<Cmd("run")>>}
LineInputs ==
  {Unchanged}
  \cup {[d |-> 0] @@ Written(clock, h, ls) :
          h \in ClientHeaders \ {action_file.header}, ls \in LineBodies}

NextLine ==
  \/ Automation_Init
  \/ Automation_Poll(LineInputs)
  \/ FrameWaitPoll(LineInputs)
  \/ FrameWaitExit
  \/ ProcessShutdown

\* the dispatcher under files with lines that carry no command
SpecLine == Init /\ [][NextLine]_vars

\* a client that takes screenshots to two paths while it pauses, advances
\* and frees the emulator
ShotCommands ==
  {CmdP("screenshot", GoodPath), CmdP("screenshot", OtherPath),
   Cmd("screenshot"), Cmd("run"), Cmd("pause"), CmdN("frame_advance", 1)}
ShotInputs ==
  {Unchanged}
  \cup {[d |-> 0] @@ Written(clock, h, <<c>>) :
          h \in ClientHeaders \ {action_file.header}, c \in ShotCommands}

NextShot ==
  \/ Automation_Init
  \/ Automation_Poll(ShotInputs)
  \/ FrameWaitPoll(ShotInputs)
  \/ FrameWaitExit
  \/ ProcessShutdown

\* the screenshot slot under a client that queues screenshots
SpecShot == Init /\ [][NextShot]_vars

\* a client that presses and releases buttons, known and unknown, and lets
\* the emulator run
InputButtons == {GoodButton, LowButton, BadButton}
InputCommands ==
  {CmdP(o, b) : o \in {"input", "input_release"}, b \in InputButtons}
  \cup {Cmd(o) : o \in {"input", "input_release", "input_clear", "run"}}
InputInputs ==
  {Unchanged}
  \cup {[d |-> 0] @@ Written(clock, h, <<c>>) :
          h \in ClientHeaders \ {action_file.header}, c \in InputCommands}

NextInput ==
  \/ Automation_Init
  \/ Automation_Poll(InputInputs)
  \/ FrameWaitPoll(InputInputs)
  \/ FrameWaitExit
  \/ InputRequest
  \/ ProcessShutdown

\* the input injector under a client that presses and releases buttons
SpecInput == Init /\ [][NextInput]_vars

\* the client of the watchpoint scenario lets the emulator run and pauses it
WpCommands == {Cmd("run"), Cmd("pause")}
WpInputs ==
  {Unchanged}
  \cup {[d |-> 0] @@ Written(clock, h, <<c>>) :
          h \in ClientHeaders \ {action_file.header}, c \in WpCommands}

NextWp ==
  \/ Automation_Init
  \/ Automation_Poll(WpInputs)
  \/ FrameWaitPoll(WpInputs)
  \/ FrameWaitExit
  \/ WatchpointArm
  \/ WatchpointDisarm
  \/ CpuWrite
  \/ DmaWrite
  \/ ProcessShutdown

\* the watchpoint engine under a running and pausing emulator
SpecWp == Init /\ [][NextWp]_vars

\* ----------------------------------------------------------------- claims
\* the emulator thread sits in the instruction-level spin-wait, paused by the
\* hook after the step that gh tracks, with no command dispatched since
StepPaused ==
  /\ gh.op = "step"
  /\ gh.fresh
  /\ gh.hooks >= 1
  /\ pc = "insn_wait"
  /\ instruction_paused
  /\ automation_active

\* C1: every ack in the ack file, whoever wrote it, carries seq equal to the
\* freshly incremented ack_seq, beginning with seq=1 on the ready ack.
C1_EveryAckCarriesSeq ==
  ack_file.msg # "none" =>
    ack_file.has_seq /\ ack_file.seq = ack_seq /\ ack_seq >= 1

\* C2 (as stated): after every dispatched command the hook is enabled iff the
\* step state is not Disarmed (countdown pending or instruction-paused), or
\* the breakpoint list is non-empty, or a trace is armed.
C2_HookIffNotDisarmed ==
  last_dispatch # <<>> =>
    (cpu_hook_active <=>
       (instructions_to_step >= 0 \/ instruction_paused
        \/ breakpoints # <<>> \/ pc_trace_active))

\* C2 (amended): after every dispatched command the hook is enabled if a step
\* countdown is pending, the breakpoint list is non-empty or a trace is armed,
\* and it is enabled only if one of these holds or the hook is
\* instruction-paused.
C2_HookFollowsNeed ==
  last_dispatch # <<>> =>
    /\ (instructions_to_step >= 0 \/ breakpoints # <<>> \/ pc_trace_active)
         => cpu_hook_active
    /\ cpu_hook_active =>
         (instructions_to_step >= 0 \/ instruction_paused
          \/ breakpoints # <<>> \/ pc_trace_active)

\* breakpoint_clear dispatched inside the instruction-level spin-wait: the
\* hook is disabled while the step state is Paused
C2_Witness ==
  /\ last_dispatch = <<Cmd("breakpoint_clear")>>
  /\ pc = "insn_wait"
  /\ instruction_paused
  /\ ~cpu_hook_active

\* C3: for a frame_advance N accepted in any state and followed by no other
\* command, the countdown loses one frame per tick, and the N-th tick after
\* the ok ack writes done frame_advance with frame = frame at the ok + N.
C3_FrameAdvanceExactTicks ==
  (gh.op = "frame_advance" /\ gh.fresh /\ automation_active) =>
    /\ gh.ticks < gh.n => frames_to_advance = gh.n - gh.ticks
    /\ gh.ticks = gh.n =>
         ack_file = Ack("done frame_advance", gh.frame + gh.n, 0)

\* C4 (as stated): the pause that ends a step N is acked break exactly when a
\* breakpoint matched strictly before the N-th invocation, and done step
\* exactly on the N-th invocation, even if a breakpoint matches there.
C4_BreakOnlyBeforeNth ==
  StepPaused =>
    /\ ack_file.msg = "break" <=> gh.hooks < gh.n
    /\ ack_file.msg = "done step" <=> gh.hooks = gh.n

\* C4 (amended): the pause that ends a step N comes no later than the N-th
\* invocation; it is acked break exactly when the paused invocation's PC is
\* a breakpoint (the N-th invocation included), and done step exactly when
\* it is the N-th invocation and its PC is no breakpoint.
C4_BreakWinsOnNth ==
  StepPaused =>
    /\ gh.hooks <= gh.n
    /\ ack_file.msg \in {"break", "done step"}
    /\ ack_file.msg = "break" <=> bp_match(breakpoints, pause_arg)
    /\ ack_file.msg = "done step" <=>
         (gh.hooks = gh.n /\ ~bp_match(breakpoints, pause_arg))
    /\ gh.hooks < gh.n => ack_file.msg = "break"

\* step 2 paused on its second invocation, at a breakpoint
C4_Witness ==
  /\ StepPaused
  /\ gh.n = 2
  /\ gh.hooks = 2
  /\ ack_file.msg = "break"

\* before the first frame tick, or blocked inside the first frame tick
FirstTickBlocked ==
  \/ frame_counter = 0 /\ pc = "run"
  \/ frame_counter = 1 /\ pc = "frame_wait" /\ frames_to_advance = 0

\* C5 (as stated): after Automation_Init the first frame tick blocks in the
\* frame-level spin-wait until run, frame_advance, run_to_frame, step or
\* continue is dispatched or the control plane is shut down.
C5_BlockedUntilListedCommand ==
  (inited /\ automation_active /\ ~seen_unblock) => FirstTickBlocked

\* C5 (amended): the same, with pc_trace_frame among the commands that
\* release the frame-level spin-wait.
C5_BlockedUntilUnblocked ==
  (inited /\ automation_active /\ ~seen_unblock /\ ~seen_trace) => FirstTickBlocked

\* the first tick still blocked after a command that does not unblock
C5_Witness ==
  /\ inited /\ automation_active /\ ~seen_unblock /\ ~seen_trace
  /\ pc = "frame_wait"
  /\ frame_counter = 1
  /\ last_dispatch = <<Cmd("status")>>

\* C6: frame_advance 3 sent as the first command is dispatched at frame 0 and
\* its done ack reports frame=3.
C6_FirstCommandAtFrameZero ==
  (gh.op = "frame_advance" /\ gh.first /\ gh.n = 3 /\ automation_active) =>
    /\ gh.frame = 0
    /\ gh.ticks = 3 => ack_file = Ack("done frame_advance", 3, 0)

C8_ShutdownOnce ==
  /\ shutdown_acks <= 1
  /\ kill_calls = 0 => shutdown_acks = 0
  /\ kill_calls >= 1 => (shutdown_acks = 1 /\ ~automation_active)

\* Automation_Kill called twice after quit
C8_Witness ==
  /\ exit_requested
  /\ kill_calls = 2
  /\ shutdown_acks = 1
  /\ ~automation_active

\* C9: a file whose header is byte-identical to the last accepted header
\* dispatches no command, and a file found with the accepted sequence number
\* but different padding is accepted as new.
C9_IdenticalHeaderIgnored ==
  /\ ~repeat_header
  /\ (action_file.exists /\ action_file.header.seq = accepted_header.seq)
       => action_file.header = accepted_header

\* C10: a file whose header differs from the last accepted header is
\* accepted by the poll that finds it, whatever stat reports.
C10_DetectionIgnoresStat ==
  action_file.exists => accepted_header = action_file.header

\* every line the last step dispatched wrote exactly one ack of its own
OneAckPerLine == \A i \in 1..Len(dispatch_acks) : dispatch_acks[i] = 1

\* the acks written outside the dispatcher that belong to no command
LifecycleAcks == {"none", "ready", "shutdown"}

\* C11 (as stated): every dispatched line writes exactly one ack at dispatch
\* time, and an ack written later, outside the dispatcher, is done
\* frame_advance, done run_to_frame or done pc_trace_frame.
C11_OnlyThreeLaterAcks ==
  /\ OneAckPerLine
  /\ async_ack \in LifecycleAcks \cup {"done frame_advance", "done run_to_frame",
                                       "done pc_trace_frame"}

\* C11 (amended): every dispatched line writes exactly one ack at dispatch
\* time, and an ack written later is one of the three done acks of the frame
\* tick, done step or break from the hook (after step, or after a breakpoint
\* is hit), or ok screenshot / error screenshot from the tick that takes a
\* queued screenshot.
C11_LaterAcksOfTickAndHook ==
  /\ OneAckPerLine
  /\ async_ack \in LifecycleAcks \cup {"done frame_advance", "done run_to_frame",
                                       "done pc_trace_frame", "done step", "break",
                                       "ok screenshot", "error screenshot"}
  /\ (async_ack \in {"done step", "break"} /\ automation_active) => pc = "insn_wait"

\* the hook has written done step, the second ack of a step
C11_Witness ==
  /\ StepPaused
  /\ async_ack = "done step"
  /\ ack_file.msg = "done step"

\* the last line the last step dispatched
LastLine == last_dispatch[Len(last_dispatch)]

\* C12: a line whose first token is outside the vocabulary is answered with
\* error unknown command: <tok> and changes none of the statics (frame mode,
\* step state, breakpoints, input mask, trace state, hook flag).
C12_UnknownCommandOnlyAcks ==
  (last_dispatch # <<>> /\ LastLine.op = UnknownToken) =>
    /\ ack_file = AckT("error unknown command", UnknownToken)
    /\ touched = {}
    /\ dispatch_acks = <<1>>

\* an unknown command dispatched inside the instruction-level spin-wait,
\* with the hook enabled
C12_Witness ==
  /\ last_dispatch = <<CmdN(UnknownToken, 42)>>
  /\ pc = "insn_wait"
  /\ instruction_paused
  /\ cpu_hook_active
  /\ ack_file = AckT("error unknown command", UnknownToken)

\* the ack texts that begin with "error"
ErrorAcks ==
  {"error unknown command", "error screenshot: no path specified",
   "error screenshot", "error input: unknown button",
   "error input_release: unknown button", "error dump_regs_bin: no path",
   "error dump_mem_bin: need addr size path", "error dump_mem_bin: cannot open",
   "error pc_trace_frame: no path", "error pc_trace_frame: cannot open"}

\* the last line is a command that reads a number, sent without one or with
\* a token that is no number
NumberMissing ==
  /\ last_dispatch # <<>>
  /\ LastLine.op \in NumericOps
  /\ (~LastLine.has_arg \/ LastLine.junk)

\* C13: breakpoint, run_to_frame, dump_mem or dump_mem_bin whose number is
\* missing or unparseable is answered with an error ack and is not executed
\* with a default value.
C13_MissingNumberIsError ==
  NumberMissing => (ack_file.msg \in ErrorAcks /\ touched = {})

\* C14: once a later frame- or instruction-control command has been acked,
\* the earlier frame_advance, run_to_frame or step writes no done ack: a
\* step of the program writes a done ack only if its own command was the
\* last control command dispatched before that step.
C14_LaterCommandCancels ==
  [][/\ async_ack' = "done run_to_frame" => last_ctl.op = "run_to_frame"
     /\ async_ack' = "done frame_advance" => last_ctl.op = "frame_advance"
     /\ async_ack' = "done step" => last_ctl.op = "step"]_vars

\* C15 (as stated): step and continue never change the frame mode, and the
\* commands that release the frame-level spin-wait never change
\* instruction_paused.
C15_PauseModesIndependent ==
  last_dispatch # <<>> =>
    /\ LastLine.op \in {"step", "continue"} => "frames_to_advance" \notin touched
    /\ LastLine.op \in {"run", "frame_advance", "run_to_frame"} =>
         "instruction_paused" \notin touched

\* C15 (amended): step and continue release both spin-waits (a frame mode of
\* Paused becomes Free, any other frame mode is kept); run, frame_advance and
\* run_to_frame release both and disarm the step countdown; pause and
\* pc_trace_frame change the frame mode only and leave the hook paused.
C15_ReleaseCouplesPauseModes ==
  last_dispatch # <<>> =>
    /\ LastLine.op \in {"step", "continue"} =>
         /\ ~instruction_paused
         /\ frames_to_advance # 0
         /\ "frames_to_advance" \in touched => frames_to_advance = -1
    /\ LastLine.op \in {"run", "frame_advance", "run_to_frame"} =>
         /\ ~instruction_paused
         /\ instructions_to_step = -1
         /\ frames_to_advance # 0
    /\ LastLine.op = "pause" =>
         /\ touched \subseteq {"frames_to_advance"}
         /\ frames_to_advance = 0
    /\ LastLine = CmdP("pc_trace_frame", GoodPath) =>
         /\ touched \cap {"instruction_paused", "instructions_to_step"} = {}
         /\ frames_to_advance = 1

\* continue dispatched while both pause modes hold releases both
C15_Witness ==
  /\ last_dispatch = <<Cmd("continue")>>
  /\ {"frames_to_advance", "instruction_paused"} \subseteq touched
  /\ frames_to_advance = -1
  /\ ~instruction_paused

AdvancedFromInsnPause ==
  /\ gh.op = "frame_advance"
  /\ gh.fresh
  /\ gh.from_insn
  /\ automation_active
  /\ ~instruction_paused

\* C17: frame_advance N dispatched while the hook is instruction-paused
\* leaves no step countdown, lets the hook return, leaves the hook enabled
\* exactly when a breakpoint or a trace needs it, and the emulator pauses in
\* the frame-level spin-wait after N frame ticks, not before.
C17_FrameAdvanceLeavesInsnPause ==
  AdvancedFromInsnPause =>
    /\ instructions_to_step = -1
    /\ pc # "insn_wait"
    /\ cpu_hook_active <=> (breakpoints # <<>> \/ pc_trace_active)
    /\ gh.ticks < gh.n => (frames_to_advance = gh.n - gh.ticks /\ pc = "run")
    /\ gh.ticks = gh.n =>
         (frames_to_advance = 0 /\ pc = "frame_wait"
          /\ frame_counter = gh.frame + gh.n)

\* C18: after run_to_frame N, whatever integer N is, with no further
\* command, a frame tick that leaves frame_counter >= N has written done
\* run_to_frame with that frame and the frame mode is Paused from then on;
\* before that the emulator runs free.
C18_RunToFrameFiresAtTarget ==
  (gh.op = "run_to_frame" /\ gh.fresh /\ automation_active /\ gh.ticks >= 1) =>
    /\ frame_counter >= gh.n =>
         /\ frames_to_advance = 0
         /\ pc = "frame_wait"
         /\ ack_file = Ack("done run_to_frame", frame_counter, 0)
    /\ frame_counter < gh.n => frames_to_advance = -1

\* C19: the first frame tick after pc_trace_frame armed the trace has closed
\* the file, disarmed the trace and written done pc_trace_frame, whatever
\* was dispatched in between; with no command dispatched by that tick the
\* hook is recomputed and the frame mode is Paused.
C19_TraceCoversOneFrame ==
  trace_age = 1 =>
    /\ ~pc_trace_file
    /\ ~pc_trace_active
    /\ ~pc_trace_frame_mode
    /\ async_ack = "done pc_trace_frame"
    /\ last_dispatch = <<>> =>
         /\ frames_to_advance = 0
         /\ pc = "frame_wait"
         /\ cpu_hook_active <=> (breakpoints # <<>> \/ instructions_to_step >= 0)

\* C20: once Automation_Kill has been called no trace file handle is open,
\* and no step overwrites an open handle without closing it.
C20_TraceHandlesClosed ==
  /\ kill_calls >= 1 => ~pc_trace_file
  /\ ~handle_dropped

\* the statics that steer the emulator, and the ack file
ControlState ==
  <<frame_counter, frames_to_advance, run_to_frame_target, pc_trace_file,
    pc_trace_active, pc_trace_frame_mode, instructions_to_step,
    instruction_paused, breakpoints, cpu_hook_active, ack_seq, input_buttons,
    input_override, pending_screenshot_path, ack_file>>

\* C21: while automation_active is false (before Automation_Init, after
\* Automation_Kill) no callback has any effect: a step that starts and ends
\* inactive changes no control static and writes no ack.
C21_InactiveCallbacksInert ==
  [][(~automation_active /\ ~automation_active') => ControlState' = ControlState]_vars

\* the emulator thread is held in one of the two spin-waits
Held == pc \in {"frame_wait", "insn_wait"} /\ automation_active

\* C22: a new action file that a poll of either spin-wait finds in place is
\* read by that poll (its header becomes the accepted header and its lines are
\* dispatched), in the instruction-level spin-wait as in the frame-level one.
C22_WaitReadsEveryFile ==
  [][(Held /\ action_file' # action_file /\ action_file'.exists)
       => (accepted_header' = action_file'.header /\ last_dispatch' # <<>>)]_vars

UnknownButtonLine ==
  /\ last_dispatch # <<>>
  /\ LastLine.op \in {"input", "input_release"}
  /\ LastLine.path \notin {GoodButton, LowButton}

\* C24: input_override is true exactly when a button is held, whatever
\* input, input_release and input_clear commands came; a command naming an
\* unknown button is answered with an error ack and changes nothing.
C24_OverrideIffMask ==
  /\ input_override <=> input_buttons # {}
  /\ UnknownButtonLine => (ack_file.msg \in ErrorAcks /\ touched = {})

\* an input_release naming an unknown button was refused while one of two
\* held buttons had been released before
C24_Witness ==
  /\ UnknownButtonLine
  /\ LastLine = CmdP("input_release", BadButton)
  /\ ack_file = AckT("error input_release: unknown button", BadButton)
  /\ input_buttons = {4}
  /\ input_override

\* the request the last step served, and the mask OR-ed into its data
Requested == pad.port # -1
Injected ==
  <<pad.before[1] \cup {b \in 0..7 : b \in input_buttons},
    pad.before[2] \cup {b \in 0..7 : b + 8 \in input_buttons}>>
Granted == automation_active /\ input_buttons # {} /\ pad.port = 0

\* C25 (as stated): a request for port 0 with a button held returns the
\* caller's data with the mask OR-ed in; any other request returns false and
\* leaves the data unchanged.
C25_PortZeroGetsMask ==
  Requested =>
    IF Granted THEN pad.ret /\ pad.after = Injected
    ELSE ~pad.ret /\ pad.after = pad.before

\* C25 (amended): a request for port 0 with a button held returns true, and
\* its data has the mask OR-ed in when the buffer holds at least two bytes;
\* a shorter buffer is left unchanged. No bit the caller set is cleared, and
\* any other request returns false and leaves the data unchanged.
C25_MaskNeedsTwoBytes ==
  Requested =>
    /\ pad.ret <=> Granted
    /\ pad.after = IF Granted /\ pad.size >= 2 THEN Injected ELSE pad.before
    /\ pad.before[1] \subseteq pad.after[1]
    /\ pad.before[2] \subseteq pad.after[2]

\* START and UP held, the caller had set bit 0: the request returns all three
C25_Witness ==
  /\ pad.port = 0
  /\ pad.ret
  /\ pad.before = <<{0}, {}>>
  /\ pad.after = <<{0, 4}, {3}>>
  /\ input_buttons = {4, 11}

\* C26: every path acked ok screenshot_queued stays pending until the frame
\* tick that has a framebuffer answers it with ok screenshot <path> or error
\* screenshot, also when a second screenshot was queued before that tick.
C26_EveryQueuedShotAnswered ==
  \A p \in shots_owed : pending_screenshot_path = p

\* the last line is frame_advance or step with no count, an unparseable
\* count, 0 or a negative count
LowCountLine ==
  /\ last_dispatch # <<>>
  /\ LastLine.op \in {"frame_advance", "step"}
  /\ (~LastLine.has_arg \/ LastLine.junk \/ LastLine.num < 1)

\* C27: frame_advance and step with a missing, zero or negative count are
\* acked with count 1 and arm a countdown of 1, and, no other command
\* following, the pause comes with the first frame tick, respectively the
\* first instruction.
C27_LowCountIsOne ==
  /\ (LowCountLine /\ LastLine.op = "frame_advance") =>
        (ack_file = Ack("ok frame_advance", 1, 0) /\ frames_to_advance = 1)
  /\ (LowCountLine /\ LastLine.op = "step") =>
        (ack_file = Ack("ok step", 1, 0) /\ instructions_to_step = 1)
  /\ (gh.op = "frame_advance" /\ gh.fresh /\ gh.raw < 1 /\ automation_active) =>
        /\ gh.ticks <= 1
        /\ gh.ticks = 1 => (frames_to_advance = 0 /\ pc = "frame_wait")
  /\ (gh.op = "step" /\ gh.fresh /\ gh.raw < 1 /\ automation_active) =>
        /\ gh.hooks <= 1
        /\ gh.hooks = 1 => (instruction_paused /\ pc = "insn_wait")

\* a step with a negative count paused the emulator after one instruction
C27_Witness ==
  /\ StepPaused
  /\ gh.raw = -1
  /\ gh.hooks = 1
  /\ ack_file.msg = "done step"

\* the last line is dump_mem or dump_mem_bin with an address and a size
SizedDump(o) ==
  /\ last_dispatch # <<>>
  /\ LastLine.op = o
  /\ LastLine.has_num2
\* the smaller of two numbers
Least(a, b) == IF a < b THEN a ELSE b

\* C28 (as stated): dump_mem reads min(size, 65536) bytes and dump_mem_bin
\* writes min(size, 1048576) bytes from addr on, and no size above the limit
\* is answered with an error ack.
C28_OversizeNeverError ==
  /\ (SizedDump("dump_mem") /\ (LastLine.wide \/ LastLine.num2 > DumpMemLimit)) =>
        (ack_file.msg = "mem" /\ last_dump.bytes = DumpMemLimit)
  /\ (SizedDump("dump_mem_bin") /\ (LastLine.wide \/ LastLine.num2 > DumpBinLimit)
        /\ LastLine.path = GoodPath) =>
        (ack_file.msg = "ok dump_mem_bin" /\ last_dump.bytes = DumpBinLimit)

\* C28 (amended): for a size that fits 32 bits, dump_mem reads
\* min(size, 65536) bytes and dump_mem_bin, given a non-zero size and a path
\* it can open, writes min(size, 1048576) bytes, from addr on, and a size
\* above the limit gets the same ack as one below. A size that does not fit
\* 32 bits makes dump_mem read 65536 bytes and dump_mem_bin answer with an
\* error ack and write nothing.
C28_ClampWithin32Bits ==
  /\ (SizedDump("dump_mem") /\ ~LastLine.wide) =>
        /\ ack_file.msg = "mem"
        /\ last_dump = [op |-> "dump_mem", addr |-> LastLine.num,
                        bytes |-> Least(LastLine.num2, 65536)]
  /\ (SizedDump("dump_mem") /\ LastLine.wide) =>
        (ack_file.msg = "mem" /\ last_dump.bytes = 65536)
  /\ (SizedDump("dump_mem_bin") /\ ~LastLine.wide /\ LastLine.num2 > 0
        /\ LastLine.path = GoodPath) =>
        /\ ack_file.msg = "ok dump_mem_bin"
        /\ last_dump = [op |-> "dump_mem_bin", addr |-> LastLine.num,
                        bytes |-> Least(LastLine.num2, 1048576)]
  /\ (SizedDump("dump_mem_bin") /\ LastLine.wide) =>
        (ack_file.msg = "error dump_mem_bin: need addr size path"
         /\ last_dump = NoDump)

\* a dump_mem_bin of one byte more than 1 MiB wrote exactly 1 MiB
C28_Witness ==
  /\ SizedDump("dump_mem_bin")
  /\ LastLine.num2 = DumpBinLimit + 1
  /\ ack_file.msg = "ok dump_mem_bin"
  /\ last_dump.bytes = 1048576

\* C29 (as stated): instruction_paused is true exactly when the emulator
\* thread is inside the spin-wait of the instruction hook.
C29_PausedIffInsnWait == instruction_paused <=> pc = "insn_wait"

\* C29 (amended): while automation_active is true, instruction_paused is
\* true exactly when the thread is inside the spin-wait of the hook, and the
\* thread is never in that spin-wait with the flag false. Automation_Kill
\* releases the spin-wait and leaves the flag set.
C29_PausedIffInsnWaitWhileActive ==
  /\ automation_active => (instruction_paused <=> pc = "insn_wait")
  /\ pc = "insn_wait" => instruction_paused

\* a status line served inside the instruction-level spin-wait, the frame
\* mode free-running
C29_Witness ==
  /\ last_dispatch = <<Cmd("status")>>
  /\ pc = "insn_wait"
  /\ instruction_paused
  /\ automation_active
  /\ frames_to_advance = -1

\* C30 (as stated): frames_to_advance = 0 holds exactly when the emulator
\* thread is inside the frame-level spin-wait, and never in the
\* instruction-level spin-wait.
C30_FramePausedIffFrameWait ==
  /\ frames_to_advance = 0 <=> pc = "frame_wait"
  /\ pc = "insn_wait" => frames_to_advance # 0

\* C30 (amended): while automation_active is true, the thread is inside the
\* frame-level spin-wait only with frames_to_advance = 0, and with
\* frames_to_advance = 0 it is inside one of the two spin-waits or has not
\* reached the first frame tick after Automation_Init.
C30_FrameWaitImpliesPaused ==
  /\ (automation_active /\ pc = "frame_wait") => frames_to_advance = 0
  /\ (automation_active /\ frames_to_advance = 0) =>
        (pc \in {"frame_wait", "insn_wait"} \/ frame_counter = 0)

\* pause dispatched inside the instruction-level spin-wait: frame mode
\* Paused while the thread stays in the spin-wait of the hook
C30_Witness ==
  /\ last_dispatch = <<Cmd("pause")>>
  /\ pc = "insn_wait"
  /\ automation_active
  /\ frames_to_advance = 0
  /\ ack_file.msg = "ok pause"

\* C31: a break ack reports pc and addr both equal to the decode PC the hook
\* was called with, which is in the breakpoint list; a done step ack reports
\* the fetch PC of the CPU, ahead of the hook argument; and a pause on an
\* invocation whose PC matches a breakpoint is acked break, also when that
\* invocation completes a step.
C31_BreakReportsDecodePC ==
  /\ async_ack = "break" =>
        /\ ack_file.a = pause_arg
        /\ ack_file.c = pause_arg
        /\ \E i \in 1..Len(breakpoints) : breakpoints[i] = pause_arg
  /\ async_ack = "done step" =>
        /\ (ack_file.a - pause_arg) \in FetchAhead
        /\ \A i \in 1..Len(breakpoints) : breakpoints[i] # pause_arg

\* a step of one instruction completed on a breakpoint address: acked break
C31_Witness ==
  /\ async_ack = "break"
  /\ gh.op = "step"
  /\ gh.fresh
  /\ gh.n = 1
  /\ gh.hooks = 1
  /\ ack_file.a = 16
  /\ ack_file.c = 16
  /\ pc = "insn_wait"

\* C32: every frame tick adds exactly 1 to frame_counter, in every frame
\* mode; nothing else changes it: no command a tick or a spin-wait
\* dispatches, no hook invocation, no shutdown; it never decreases.
C32_FrameCounterCountsTicks ==
  [][/\ Automation_Poll(VocabInputs) => frame_counter' = frame_counter + 1
     /\ ~Automation_Poll(VocabInputs) => frame_counter' = frame_counter
     /\ frame_counter' >= frame_counter
     /\ "frame_counter" \notin touched']_vars

\* three frame ticks counted, pause dispatched and acked at frame 3
C32_Witness ==
  /\ frame_counter = 3
  /\ last_dispatch = <<Cmd("pause")>>
  /\ ack_file = Ack("ok pause", 3, 0)
  /\ pc = "frame_wait"

\* the line the step dispatches, if it dispatches exactly one
Dispatches(o) == Len(last_dispatch') = 1 /\ last_dispatch'[1].op = o

\* C33: breakpoint H appends H to the list, present or not, and acks the
\* new length; breakpoint_clear acks the length it found and empties the
\* list; breakpoint_list acks the length and leaves the list alone.
C33_BreakpointListKeepsDuplicates ==
  [][/\ Dispatches("breakpoint") =>
          /\ breakpoints' = Append(breakpoints, last_dispatch'[1].num)
          /\ ack_file' = Ack("ok breakpoint", last_dispatch'[1].num,
                             Len(breakpoints) + 1)
     /\ Dispatches("breakpoint_clear") =>
          /\ breakpoints' = <<>>
          /\ ack_file' = Ack("ok breakpoint_clear", Len(breakpoints), 0)
     /\ Dispatches("breakpoint_list") =>
          /\ breakpoints' = breakpoints
          /\ ack_file' = Ack("breakpoints", Len(breakpoints), 0)]_vars

\* the same address set twice: two entries, total=2
C33_Witness ==
  /\ breakpoints = <<16, 16>>
  /\ last_dispatch = <<CmdN("breakpoint", 16)>>
  /\ ack_file = Ack("ok breakpoint", 16, 2)

\* C34: a blank line or a line beginning with # is never dispatched: it
\* writes no ack and changes no control state.
C34_BlankLinesIgnored ==
  \A i \in 1..Len(last_dispatch) :
    /\ last_dispatch[i].op # ""
    /\ ~(last_dispatch[i].op = "#" /\ ~last_dispatch[i].ws)

\* C35: a consume call returns true exactly when its command was dispatched
\* since the last consume call of the same kind: the command sets the flag,
\* the consume call returns the flag and clears it, and nothing else writes
\* the flag, so a second call without a new command returns false.
Received(o) == \E i \in 1..Len(last_dispatch') : last_dispatch'[i].op = o
C35_ConsumeReturnsFlagOnce ==
  [][/\ pending_show_window' =
          IF Received("show_window") THEN TRUE
          ELSE IF window_call'.fn = "show" THEN FALSE
          ELSE pending_show_window
     /\ pending_hide_window' =
          IF Received("hide_window") THEN TRUE
          ELSE IF window_call'.fn = "hide" THEN FALSE
          ELSE pending_hide_window
     /\ window_call'.fn = "show" => window_call'.ret = pending_show_window
     /\ window_call'.fn = "hide" => window_call'.ret = pending_hide_window
     /\ window_call'.fn # "none" => last_dispatch' = <<>>]_vars

\* a show_window command was acked, the emulator ran on and the consume call
\* returned true, leaving the show flag clear and the hide flag set
C35_Witness ==
  /\ window_call = [fn |-> "show", ret |-> TRUE]
  /\ ~pending_show_window
  /\ pending_hide_window
  /\ pc = "run"


\* C36: the frame tick returns to the emulator only with frames_to_advance
\* non-zero or automation inactive, the hook returns only with
\* instruction_paused false or automation inactive, and every return of the
\* hook, from any state and for any address, returns false.
TickStep == pc = "frame_wait" \/ Automation_Poll(VocabInputs)
HookStep == pc = "insn_wait" \/ Automation_DebugHook
HookExits ==
  {hook_exit(hook_body(Statics, a, a + d), b) :
     a \in Addrs, d \in FetchAhead, b \in BOOLEAN}
AtBreakpoint == pc = "insn_wait" /\ bp_match(breakpoints, pause_arg)
Resumes ==
  /\ last_dispatch' # <<>>
  /\ last_dispatch'[Len(last_dispatch')].op \in {"continue", "step"}
C37_ResumeLeavesBreakpoint ==
  [][/\ AtBreakpoint /\ Resumes =>
          /\ pc' = "run"
          /\ ~instruction_paused'
          /\ async_ack' = "none"
          /\ ack_seq' = ack_seq
          /\ ack_file'.msg \in {"ok continue", "ok step"}
     /\ async_ack' = "break" => pc = "run" /\ Automation_DebugHook]_vars

\* the hook broke at 0x10, step 1 was dispatched in its spin-wait and the
\* hook returned with one instruction to step and the breakpoint still set
C37_Witness ==
  /\ last_dispatch = <<CmdN("step", 1)>>
  /\ ack_file.msg = "ok step"
  /\ breakpoints = <<16>>
  /\ ack_seq = 1
  /\ instructions_to_step = 1
  /\ pc = "run"

\* C38: the lines of an accepted file are dispatched in file order in the
\* poll that accepts the file, each line in the state the line before it
\* left, each writes one ack, and the ack file ends as the ack of the last
\* line.
C38_FileDispatchedInOrder ==
  [][/\ action_file' # action_file =>
          /\ last_dispatch' \in MultiBodies
          /\ Len(dispatch_acks') = Len(last_dispatch')
          /\ \A i \in 1..Len(dispatch_acks') : dispatch_acks'[i] = 1
     /\ action_file' = action_file => last_dispatch' = <<>>
     /\ last_dispatch' = ListThenCount =>
          /\ breakpoints' = breakpoints \o <<16, 32>>
          /\ ack_file' = Ack("breakpoints", Len(breakpoints) + 2, 0)
     /\ last_dispatch' = ReverseList =>
          /\ breakpoints' = breakpoints \o <<32, 16>>
          /\ ack_file' = Ack("ok breakpoint", 16, Len(breakpoints) + 2)
     /\ last_dispatch' = ClearThenSet =>
          /\ breakpoints' = <<16>>
          /\ ack_file' = Ack("ok breakpoint", 16, 1)
     /\ last_dispatch' = PauseThenRun =>
          /\ frames_to_advance' = -1
          /\ ack_file' = Ack("ok run", 0, 0)
          /\ pc' = "run"
     /\ last_dispatch' = RunThenPause =>
          /\ frames_to_advance' = 0
          /\ ack_file' = Ack("ok pause", frame_counter', 0)
          /\ pc' = "frame_wait"]_vars

\* one poll of the spin-wait dispatched breakpoint 0x10, breakpoint 0x20 and
\* breakpoint_list on top of one breakpoint: the list holds three addresses
\* in file order and the only ack left is the count
C38_Witness ==
  /\ last_dispatch = ListThenCount
  /\ breakpoints = <<16, 16, 32>>
  /\ dispatch_acks = <<1, 1, 1>>
  /\ ack_file = Ack("breakpoints", 3, 0)
  /\ pc = "frame_wait"

\* C39: a pause of the hook, at a breakpoint or at the end of a step,
\* leaves instructions_to_step at -1; it stays -1 while the hook waits, and
\* only a step command, which ends the wait, sets it again; it is 0 in no
\* state in which the hook can be called or a command dispatched.
StepArrives ==
  /\ last_dispatch' # <<>>
  /\ last_dispatch'[Len(last_dispatch')].op = "step"
C39_PauseDiscardsCountdown ==
  [][/\ instructions_to_step # 0
     /\ instructions_to_step' # 0
     /\ async_ack' \in {"break", "done step"} =>
          instruction_paused' /\ instructions_to_step' = -1
     /\ pc' = "insn_wait" => instructions_to_step' = -1
     /\ pc = "insn_wait" /\ instructions_to_step' # -1 =>
          StepArrives /\ pc' = "run" /\ instructions_to_step' > 0]_vars

\* the first instruction after step 2 hit the breakpoint at 0x10: the hook
\* waits with the one instruction that was left to step discarded
C39_Witness ==
  /\ async_ack = "break"
  /\ gh.op = "step"
  /\ gh.fresh
  /\ gh.n = 2
  /\ gh.hooks = 1
  /\ pause_arg = 16
  /\ instructions_to_step = -1
  /\ pc = "insn_wait"
====
